---- MODULE Spec2Model ----
(***************************************************************************)
(* Lifecycle and concurrency model of poise's Framework                    *)
(* (src/src/framework/mod.rs): construction (new), startup (start_with,    *)
(* start, start_autosharded), the edit-tracker purge task, the raw event   *)
(* bridge and user_data().                                                 *)
(***************************************************************************)
EXTENDS Naturals, FiniteSets, TLC

\* ---- bounds ----
NumCalls == 3      \* calls of start()/start_autosharded() on the one Arc<Framework>
NumEvents == 2     \* raw events the client delivers
NumReaders == 1    \* callers of user_data()
MaxSleepsCounted == 2   \* the count of sleeps completed on a full slot saturates here

Calls == 1..NumCalls
Events == 1..NumEvents
Readers == 1..NumReaders

\* ---- inputs ----
Values == {"v0", "v1"}                      \* what the setup callback may produce (U)
ClientErrors == {"E1", "E2"}                \* serenity::Error values
Variants == {"start", "start_autosharded"}
EventKinds == {"Ready", "Other"}
AppIds == {"app"}                           \* the application_id given to new()

NoValue == "None"          \* empty OnceCell / Option::None
NoFramework == "Unalloc"   \* a field of a Framework that is not assembled yet

VARIABLES
    pcNew,            \* position of Framework::new
    buildResult,      \* what building the client returned: "none" | "Ok" | a ClientError
    newResult,        \* what new() returned: "none" | "Ok" | a ClientError
    framework_cell,   \* OnceCell<Arc<Framework>> captured by EventHandler
    options,          \* FrameworkOptions: [edit_tracker : BOOLEAN]
    application_id,   \* serenity::ApplicationId stored in the framework
    shard_manager,    \* Arc<Mutex<ShardManager>> cloned from the client
    user_data,        \* OnceCell<U>
    user_data_setup,  \* Mutex<Option<Box<dyn FnOnce>>>: "Some" | "None"
    client,           \* Mutex<Option<Client>>: "Some" | "None"
    clientPoisoned,   \* poison flag of the client Mutex
    pcS,              \* position of each start call
    variant,          \* the run operation a call holds until it invokes it
    result,           \* value each start call returned
    panicMsg,         \* message of the panic that ended a start call
    task,             \* position of the purge task spawned by each call
    abortReq,         \* JoinHandle::abort() was called on the task
    cacheLock,        \* writer of the edit tracker RwLock (0 = free)
    clientState,      \* external client: "unbuilt" | "built" | "running" | "ended"
    clientOp,         \* run operation invoked on the client
    runCount,         \* number of invocations of a run operation
    runResult,        \* what the run operation returned
    pcE,              \* position of each raw_event call
    kind,             \* kind of each delivered event
    setupCalls,       \* number of invocations of the setup callback
    setupResult,      \* what the setup callback returned
    errorReports,     \* number of setup errors handed to on_error
    pcR,              \* position of each user_data() call
    got,              \* value each user_data() call returned
    sleepsFull        \* 100 ms sleeps a waiting user_data() call completed with the slot full

newVars == <<pcNew, buildResult, newResult, framework_cell, options, application_id, shard_manager>>
fwVars == <<user_data, user_data_setup, client, clientPoisoned>>
startVars == <<pcS, variant, result, panicMsg>>
taskVars == <<task, abortReq, cacheLock>>
clientVars == <<clientState, clientOp, runCount, runResult>>
eventVars == <<pcE, kind, setupCalls, setupResult, errorReports>>
readVars == <<pcR, got, sleepsFull>>
vars == <<newVars, fwVars, startVars, taskVars, clientVars, eventVars, readVars>>

\* ---- library semantics used by the code ----

\* once_cell::sync::OnceCell::set: stores only into an empty cell, otherwise a no-op
OnceCellSet(cell, v) == IF cell = NoValue THEN v ELSE cell

\* once_cell::sync::OnceCell::get
OnceCellGet(cell) == cell

\* mutant: the content is read but left in place
OptionTake_Peek(opt) == [taken |-> opt, left |-> opt]

\* Option::take: yields the old content and leaves None
OptionTake(opt) == [taken |-> opt, left |-> "None"]

Init ==
    /\ pcNew = "L87"
    /\ buildResult = "none"
    /\ newResult = "none"
    /\ framework_cell = NoFramework
    /\ options \in [edit_tracker : BOOLEAN]
    /\ application_id = NoFramework
    /\ shard_manager = NoFramework
    /\ user_data = NoFramework
    /\ user_data_setup = NoFramework
    /\ client = NoFramework
    /\ clientPoisoned = FALSE
    /\ pcS = [s \in Calls |-> "idle"]
    /\ variant = [s \in Calls |-> "none"]
    /\ result = [s \in Calls |-> "none"]
    /\ panicMsg = [s \in Calls |-> "none"]
    /\ task = [s \in Calls |-> "none"]
    /\ abortReq = [s \in Calls |-> FALSE]
    /\ cacheLock = 0
    /\ clientState = "unbuilt"
    /\ clientOp = "none"
    /\ runCount = 0
    /\ runResult = "none"
    /\ pcE = [e \in Events |-> "pending"]
    /\ kind = [e \in Events |-> "none"]
    /\ setupCalls = 0
    /\ setupResult = "none"
    /\ errorReports = 0
    /\ pcR = [r \in Readers |-> "idle"]
    /\ got = [r \in Readers |-> "none"]
    /\ sleepsFull = [r \in Readers |-> 0]

\* ---- Framework::new ----

\* lines 87-88: the empty cell and the EventHandler that closes over it
NewAllocCell ==
    /\ pcNew = "L87"
    /\ framework_cell' = NoValue
    /\ pcNew' = "L90"
    /\ UNCHANGED <<buildResult, newResult, options, application_id, shard_manager>>
    /\ UNCHANGED <<fwVars, startVars, taskVars, clientVars, eventVars, readVars>>

\* mutant: a failed build does not leave new()
NewBuildClient_IgnoreErr ==
    /\ pcNew = "L90"
    /\ \E r \in {"Ok"} \cup ClientErrors : buildResult' = r
    /\ clientState' = "built"
    /\ pcNew' = "L95"
    /\ UNCHANGED <<newResult, framework_cell, options, application_id, shard_manager, clientOp, runCount, runResult>>
    /\ UNCHANGED <<fwVars, startVars, taskVars, eventVars, readVars>>

\* lines 90-93: client_builder...await? ; an Err leaves new() at once
NewBuildClient ==
    /\ pcNew = "L90"
    /\ \E r \in {"Ok"} \cup ClientErrors :
        /\ buildResult' = r
        /\ IF r = "Ok"
           THEN /\ clientState' = "built"
                /\ pcNew' = "L95"
                /\ newResult' = newResult
           ELSE /\ clientState' = clientState
                /\ pcNew' = "done"
                /\ newResult' = r
    /\ UNCHANGED <<framework_cell, options, application_id, shard_manager, clientOp, runCount, runResult>>
    /\ UNCHANGED <<fwVars, startVars, taskVars, eventVars, readVars>>

\* mutant: the framework is assembled with an empty setup callback holder
NewAssemble_NoSetup ==
    /\ pcNew = "L95"
    /\ user_data' = NoValue
    /\ user_data_setup' = "None"
    /\ client' = "Some"
    /\ \E id \in AppIds : application_id' = id
    /\ shard_manager' = "ShardManager"
    /\ pcNew' = "L103"
    /\ UNCHANGED <<buildResult, newResult, framework_cell, options, clientPoisoned>>
    /\ UNCHANGED <<startVars, taskVars, clientVars, eventVars, readVars>>

\* lines 95-102: Arc::new(Self { .. })
NewAssemble ==
    /\ pcNew = "L95"
    /\ user_data' = NoValue
    /\ user_data_setup' = "Some"
    /\ client' = "Some"
    /\ \E id \in AppIds : application_id' = id
    /\ shard_manager' = "ShardManager"
    /\ pcNew' = "L103"
    /\ UNCHANGED <<buildResult, newResult, framework_cell, options, clientPoisoned>>
    /\ UNCHANGED <<startVars, taskVars, clientVars, eventVars, readVars>>

\* mutant: the framework is returned without being stored into the cell
NewSetCell_Skip ==
    /\ pcNew = "L103"
    /\ pcNew' = "L104"
    /\ UNCHANGED <<buildResult, newResult, framework_cell, options, application_id, shard_manager>>
    /\ UNCHANGED <<fwVars, startVars, taskVars, clientVars, eventVars, readVars>>

\* line 103: framework_cell.set(framework.clone())
NewSetCell ==
    /\ pcNew = "L103"
    /\ framework_cell' = OnceCellSet(framework_cell, "Framework")
    /\ pcNew' = "L104"
    /\ UNCHANGED <<buildResult, newResult, options, application_id, shard_manager>>
    /\ UNCHANGED <<fwVars, startVars, taskVars, clientVars, eventVars, readVars>>

\* line 104: Ok(framework)
NewReturn ==
    /\ pcNew = "L104"
    /\ newResult' = "Ok"
    /\ pcNew' = "done"
    /\ UNCHANGED <<buildResult, framework_cell, options, application_id, shard_manager>>
    /\ UNCHANGED <<fwVars, startVars, taskVars, clientVars, eventVars, readVars>>

\* the caller of new() holds an Arc<Framework>
HasHandle == newResult = "Ok"

\* start calls, raw events and user_data() calls are numbered in the order in
\* which they are made: s is the next start call to reach the client lock, e the
\* next event the client delivers, r the next caller to enter user_data()
IsNextCall(s) == \A t \in Calls : t < s => pcS[t] # "idle"

IsNextEvent(e) == \A f \in Events : f < e => pcE[f] # "pending"

IsNextReader(r) == \A q \in Readers : q < r => pcR[q] # "idle"

\* ---- Framework::start_with ----

\* mutant: a missing client makes start_with return Ok(()) without doing anything
StartWith_SilentNoOp(s, v) ==
    /\ HasHandle
    /\ pcS[s] = "idle"
    /\ IsNextCall(s)
    /\ IF OptionTake(client).taken = "None"
       THEN /\ pcS' = [pcS EXCEPT ![s] = "returned"]
            /\ result' = [result EXCEPT ![s] = "Ok"]
            /\ UNCHANGED variant
       ELSE /\ pcS' = [pcS EXCEPT ![s] = "L122"]
            /\ variant' = [variant EXCEPT ![s] = v]
            /\ UNCHANGED result
    /\ client' = OptionTake(client).left
    /\ UNCHANGED <<panicMsg, clientPoisoned, user_data, user_data_setup>>
    /\ UNCHANGED <<newVars, taskVars, clientVars, eventVars, readVars>>

\* mutant: the purge task is spawned before the client is taken out
StartWith_SpawnFirst(s, v) ==
    /\ HasHandle
    /\ pcS[s] = "idle"
    /\ IsNextCall(s)
    /\ task' = [task EXCEPT ![s] = "spawned"]
    /\ IF clientPoisoned
       THEN /\ pcS' = [pcS EXCEPT ![s] = "panicked"]
            /\ panicMsg' = [panicMsg EXCEPT ![s] = "PoisonError"]
            /\ UNCHANGED <<client, clientPoisoned, variant>>
       ELSE IF OptionTake(client).taken = "None"
       THEN /\ pcS' = [pcS EXCEPT ![s] = "panicked"]
            /\ panicMsg' = [panicMsg EXCEPT ![s] = "Prepared client is missing"]
            /\ clientPoisoned' = TRUE
            /\ client' = OptionTake(client).left
            /\ UNCHANGED variant
       ELSE /\ pcS' = [pcS EXCEPT ![s] = "L133"]
            /\ variant' = [variant EXCEPT ![s] = v]
            /\ client' = OptionTake(client).left
            /\ UNCHANGED <<panicMsg, clientPoisoned>>
    /\ UNCHANGED <<result, user_data, user_data_setup, abortReq, cacheLock>>
    /\ UNCHANGED <<newVars, clientVars, eventVars, readVars>>

\* lines 107-120: start_with is entered on a clone of the Arc with the run
\* operation v, and runs self.client.lock().unwrap().take().expect(..) as one
\* critical section of the Mutex.  unwrap() panics on a poisoned Mutex; expect()
\* panics on None while the guard is alive, which poisons the Mutex.
StartWith(s, v) ==
    /\ HasHandle
    /\ pcS[s] = "idle"
    /\ IsNextCall(s)
    /\ IF clientPoisoned
       THEN /\ pcS' = [pcS EXCEPT ![s] = "panicked"]
            /\ panicMsg' = [panicMsg EXCEPT ![s] = "PoisonError"]
            /\ UNCHANGED <<client, clientPoisoned, variant>>
       ELSE IF OptionTake(client).taken = "None"
       THEN /\ pcS' = [pcS EXCEPT ![s] = "panicked"]
            /\ panicMsg' = [panicMsg EXCEPT ![s] = "Prepared client is missing"]
            /\ clientPoisoned' = TRUE
            /\ client' = OptionTake(client).left
            /\ UNCHANGED variant
       ELSE /\ pcS' = [pcS EXCEPT ![s] = "L122"]
            /\ variant' = [variant EXCEPT ![s] = v]
            /\ client' = OptionTake(client).left
            /\ UNCHANGED <<panicMsg, clientPoisoned>>
    /\ UNCHANGED <<result, user_data, user_data_setup>>
    /\ UNCHANGED <<newVars, taskVars, clientVars, eventVars, readVars>>

\* lines 141-148: start() passes |c| c.start()
Start(s) == StartWith(s, "start")

\* lines 151-158: start_autosharded() passes |c| c.start_autosharded()
StartAutosharded(s) == StartWith(s, "start_autosharded")

\* mutant: start_with goes on to the run operation without spawning the task
StartSpawnTask_NoSpawn(s) ==
    /\ pcS[s] = "L122"
    /\ pcS' = [pcS EXCEPT ![s] = "L133"]
    /\ UNCHANGED <<variant, result, panicMsg, task, abortReq, cacheLock>>
    /\ UNCHANGED <<newVars, fwVars, clientVars, eventVars, readVars>>

\* line 122: tokio::spawn(async move { loop { .. } }); the task is scheduled
StartSpawnTask(s) ==
    /\ pcS[s] = "L122"
    /\ task' = [task EXCEPT ![s] = "spawned"]
    /\ pcS' = [pcS EXCEPT ![s] = "L133"]
    /\ UNCHANGED <<variant, result, panicMsg, abortReq, cacheLock>>
    /\ UNCHANGED <<newVars, fwVars, clientVars, eventVars, readVars>>

\* mutant: the shard manager goes away with the client when the run operation starts
StartInvokeRun_MovesShardManager(s) ==
    /\ pcS[s] = "L133"
    /\ clientState' = "running"
    /\ clientOp' = variant[s]
    /\ runCount' = runCount + 1
    /\ variant' = [variant EXCEPT ![s] = "none"]
    /\ pcS' = [pcS EXCEPT ![s] = "await"]
    /\ shard_manager' = "None"
    /\ UNCHANGED <<result, panicMsg, runResult>>
    /\ UNCHANGED <<pcNew, buildResult, newResult, framework_cell, options, application_id>>
    /\ UNCHANGED <<fwVars, taskVars, eventVars, readVars>>

\* line 133: start(client), the run operation begins and start_with awaits it
StartInvokeRun(s) ==
    /\ pcS[s] = "L133"
    /\ clientState' = "running"
    /\ clientOp' = variant[s]
    /\ runCount' = runCount + 1
    /\ variant' = [variant EXCEPT ![s] = "none"]
    /\ pcS' = [pcS EXCEPT ![s] = "await"]
    /\ UNCHANGED <<result, panicMsg, runResult>>
    /\ UNCHANGED <<newVars, fwVars, taskVars, eventVars, readVars>>

\* mutant: an Err of the run operation is dropped and start_with goes on to Ok(())
StartRunReturns_Swallow(s) ==
    /\ pcS[s] = "await"
    /\ clientState = "running"
    /\ \E r \in {"Ok"} \cup ClientErrors : runResult' = r
    /\ pcS' = [pcS EXCEPT ![s] = "L135"]
    /\ clientState' = "ended"
    /\ UNCHANGED <<variant, result, panicMsg, clientOp, runCount>>
    /\ UNCHANGED <<newVars, fwVars, taskVars, eventVars, readVars>>

\* mutant: a failed run puts the client back into its holder
StartRunReturns_PutBack(s) ==
    /\ pcS[s] = "await"
    /\ clientState = "running"
    /\ \E r \in {"Ok"} \cup ClientErrors :
        /\ runResult' = r
        /\ IF r = "Ok"
           THEN /\ pcS' = [pcS EXCEPT ![s] = "L135"]
                /\ UNCHANGED <<result, client>>
           ELSE /\ pcS' = [pcS EXCEPT ![s] = "returned"]
                /\ result' = [result EXCEPT ![s] = r]
                /\ client' = "Some"
    /\ clientState' = "ended"
    /\ UNCHANGED <<variant, panicMsg, clientOp, runCount>>
    /\ UNCHANGED <<user_data, user_data_setup, clientPoisoned>>
    /\ UNCHANGED <<newVars, taskVars, eventVars, readVars>>

\* line 133: the run operation returns r and `?` is applied to it:
\* an Err leaves start_with with that error, Ok falls through to line 135
StartRunReturns(s) ==
    /\ pcS[s] = "await"
    /\ clientState = "running"
    /\ \E r \in {"Ok"} \cup ClientErrors :
        /\ runResult' = r
        /\ IF r = "Ok"
           THEN /\ pcS' = [pcS EXCEPT ![s] = "L135"]
                /\ result' = result
           ELSE /\ pcS' = [pcS EXCEPT ![s] = "returned"]
                /\ result' = [result EXCEPT ![s] = r]
    /\ clientState' = "ended"
    /\ UNCHANGED <<variant, panicMsg, clientOp, runCount>>
    /\ UNCHANGED <<newVars, fwVars, taskVars, eventVars, readVars>>

\* line 135: edit_track_cache_purge_task.abort()
StartAbortTask(s) ==
    /\ pcS[s] = "L135"
    /\ abortReq' = [abortReq EXCEPT ![s] = TRUE]
    /\ pcS' = [pcS EXCEPT ![s] = "L137"]
    /\ UNCHANGED <<variant, result, panicMsg, task, cacheLock>>
    /\ UNCHANGED <<newVars, fwVars, clientVars, eventVars, readVars>>

\* line 137: Ok(())
StartReturnOk(s) ==
    /\ pcS[s] = "L137"
    /\ result' = [result EXCEPT ![s] = "Ok"]
    /\ pcS' = [pcS EXCEPT ![s] = "returned"]
    /\ UNCHANGED <<variant, panicMsg>>
    /\ UNCHANGED <<newVars, fwVars, taskVars, clientVars, eventVars, readVars>>

\* ---- edit_track_cache_purge_task (lines 122-130) ----

\* the runtime polls the spawned task for the first time
TaskFirstPoll(s) ==
    /\ task[s] = "spawned"
    /\ ~abortReq[s]
    /\ task' = [task EXCEPT ![s] = "L124"]
    /\ UNCHANGED <<abortReq, cacheLock>>
    /\ UNCHANGED <<newVars, fwVars, startVars, clientVars, eventVars, readVars>>

\* mutant: the write lock is taken without looking at whether a tracker is configured
TaskCheckTracker_Unconditional(s) ==
    /\ task[s] = "L124"
    /\ cacheLock = 0
    /\ cacheLock' = s
    /\ task' = [task EXCEPT ![s] = "L125"]
    /\ UNCHANGED abortReq
    /\ UNCHANGED <<newVars, fwVars, startVars, clientVars, eventVars, readVars>>

\* lines 124-125: if an edit tracker is configured take its write lock,
\* otherwise go on to the sleep
TaskCheckTracker(s) ==
    /\ task[s] = "L124"
    /\ IF options.edit_tracker
       THEN /\ cacheLock = 0
            /\ cacheLock' = s
            /\ task' = [task EXCEPT ![s] = "L125"]
       ELSE /\ task' = [task EXCEPT ![s] = "L128"]
            /\ cacheLock' = cacheLock
    /\ UNCHANGED abortReq
    /\ UNCHANGED <<newVars, fwVars, startVars, clientVars, eventVars, readVars>>

\* mutant: the write guard is kept in a binding that lives across the sleep
TaskPurge_KeepGuard(s) ==
    /\ task[s] = "L125"
    /\ cacheLock = s
    /\ cacheLock' = cacheLock
    /\ task' = [task EXCEPT ![s] = "L128"]
    /\ UNCHANGED abortReq
    /\ UNCHANGED <<newVars, fwVars, startVars, clientVars, eventVars, readVars>>

\* line 125: purge() under the guard, which is dropped at the end of the statement
TaskPurge(s) ==
    /\ task[s] = "L125"
    /\ cacheLock = s
    /\ cacheLock' = 0
    /\ task' = [task EXCEPT ![s] = "L128"]
    /\ UNCHANGED abortReq
    /\ UNCHANGED <<newVars, fwVars, startVars, clientVars, eventVars, readVars>>

\* line 128: the 60 s sleep elapses and the loop starts over
TaskWake(s) ==
    /\ task[s] = "L128"
    /\ ~abortReq[s]
    /\ task' = [task EXCEPT ![s] = "L124"]
    /\ UNCHANGED <<abortReq, cacheLock>>
    /\ UNCHANGED <<newVars, fwVars, startVars, clientVars, eventVars, readVars>>

\* an aborted task is dropped at an await point (not yet polled, or in the sleep)
TaskCancelled(s) ==
    /\ task[s] \in {"spawned", "L128"}
    /\ abortReq[s]
    /\ task' = [task EXCEPT ![s] = "cancelled"]
    /\ UNCHANGED <<abortReq, cacheLock>>
    /\ UNCHANGED <<newVars, fwVars, startVars, clientVars, eventVars, readVars>>

\* ---- EventHandler::raw_event and dispatch ----

\* mutant: the setup callback is invoked but left in its holder
DispatchEvent_NoTake(e, k) ==
    IF k = "Ready"
    THEN /\ user_data_setup' = user_data_setup
         /\ IF user_data_setup = "Some"
            THEN /\ setupCalls' = setupCalls + 1
                 /\ pcE' = [pcE EXCEPT ![e] = "setup"]
            ELSE /\ setupCalls' = setupCalls
                 /\ pcE' = [pcE EXCEPT ![e] = "done"]
    ELSE /\ pcE' = [pcE EXCEPT ![e] = "done"]
         /\ UNCHANGED <<user_data_setup, setupCalls>>

\* dispatch::dispatch_event for event e of kind k: a Ready event takes the setup
\* callback out of its holder under the lock and, if it was there, invokes it;
\* any other event goes to the dispatch router
DispatchEvent(e, k) ==
    IF k = "Ready"
    THEN /\ user_data_setup' = OptionTake(user_data_setup).left
         /\ IF OptionTake(user_data_setup).taken = "Some"
            THEN /\ setupCalls' = setupCalls + 1
                 /\ pcE' = [pcE EXCEPT ![e] = "setup"]
            ELSE /\ setupCalls' = setupCalls
                 /\ pcE' = [pcE EXCEPT ![e] = "done"]
    ELSE /\ pcE' = [pcE EXCEPT ![e] = "done"]
         /\ UNCHANGED <<user_data_setup, setupCalls>>

\* lines 79-85: the running client hands event e to the bridge, which reads the
\* cell, unwraps it (an empty cell panics) and dispatches to the framework
RawEvent(e) ==
    /\ clientState = "running"
    /\ pcE[e] = "pending"
    /\ IsNextEvent(e)
    /\ \E k \in EventKinds :
        /\ kind' = [kind EXCEPT ![e] = k]
        /\ IF OnceCellGet(framework_cell) = "Framework"
           THEN DispatchEvent(e, k)
           ELSE /\ pcE' = [pcE EXCEPT ![e] = "panicked"]
                /\ UNCHANGED <<user_data_setup, setupCalls>>
    /\ UNCHANGED <<setupResult, errorReports, user_data, client, clientPoisoned>>
    /\ UNCHANGED <<newVars, startVars, taskVars, clientVars, readVars>>

\* mutant: a failed setup callback is put back into its holder to be retried
SetupReturns_Retry(e) ==
    /\ pcE[e] = "setup"
    /\ \E r \in Values \cup {"Err"} :
        /\ setupResult' = r
        /\ IF r = "Err"
           THEN /\ errorReports' = errorReports + 1
                /\ user_data' = user_data
                /\ user_data_setup' = "Some"
           ELSE /\ user_data' = OnceCellSet(user_data, r)
                /\ errorReports' = errorReports
                /\ user_data_setup' = user_data_setup
    /\ pcE' = [pcE EXCEPT ![e] = "done"]
    /\ UNCHANGED <<kind, setupCalls, client, clientPoisoned>>
    /\ UNCHANGED <<newVars, startVars, taskVars, clientVars, readVars>>

\* the setup callback returns: Ok(v) is stored into the slot, an Err is handed
\* to the error-reporting collaborator
SetupReturns(e) ==
    /\ pcE[e] = "setup"
    /\ \E r \in Values \cup {"Err"} :
        /\ setupResult' = r
        /\ IF r = "Err"
           THEN /\ errorReports' = errorReports + 1
                /\ user_data' = user_data
           ELSE /\ user_data' = OnceCellSet(user_data, r)
                /\ errorReports' = errorReports
    /\ pcE' = [pcE EXCEPT ![e] = "done"]
    /\ UNCHANGED <<kind, setupCalls, user_data_setup, client, clientPoisoned>>
    /\ UNCHANGED <<newVars, startVars, taskVars, clientVars, readVars>>

\* ---- Framework::user_data (lines 177-184) ----

\* a caller holding the framework calls user_data()
UserDataEnter(r) ==
    /\ HasHandle
    /\ pcR[r] = "idle"
    /\ IsNextReader(r)
    /\ pcR' = [pcR EXCEPT ![r] = "L179"]
    /\ UNCHANGED <<got, sleepsFull>>
    /\ UNCHANGED <<newVars, fwVars, startVars, taskVars, clientVars, eventVars>>

\* mutant: a filled slot does not end the loop
UserDataPoll_NoBreak(r) ==
    /\ pcR[r] = "L179"
    /\ pcR' = [pcR EXCEPT ![r] = "L181"]
    /\ got' = got
    /\ UNCHANGED sleepsFull
    /\ UNCHANGED <<newVars, fwVars, startVars, taskVars, clientVars, eventVars>>

\* mutant: the value is moved out of the slot instead of borrowed
UserDataPoll_Take(r) ==
    /\ pcR[r] = "L179"
    /\ IF OnceCellGet(user_data) # NoValue
       THEN /\ pcR' = [pcR EXCEPT ![r] = "returned"]
            /\ got' = [got EXCEPT ![r] = OnceCellGet(user_data)]
            /\ sleepsFull' = [sleepsFull EXCEPT ![r] = 0]
            /\ user_data' = NoValue
       ELSE /\ pcR' = [pcR EXCEPT ![r] = "L181"]
            /\ got' = got
            /\ sleepsFull' = sleepsFull
            /\ user_data' = user_data
    /\ UNCHANGED <<user_data_setup, client, clientPoisoned>>
    /\ UNCHANGED <<newVars, startVars, taskVars, clientVars, eventVars>>

\* mutant: the loop ends with whatever get() gave, filled or not
UserDataPoll_BreakOnNone(r) ==
    /\ pcR[r] = "L179"
    /\ pcR' = [pcR EXCEPT ![r] = "returned"]
    /\ got' = [got EXCEPT ![r] = OnceCellGet(user_data)]
    /\ sleepsFull' = [sleepsFull EXCEPT ![r] = 0]
    /\ UNCHANGED <<newVars, fwVars, startVars, taskVars, clientVars, eventVars>>

\* lines 179-181: match self.user_data.get(): Some(x) breaks with x,
\* None goes to the 100 ms sleep
UserDataPoll(r) ==
    /\ pcR[r] = "L179"
    /\ IF OnceCellGet(user_data) # NoValue
       THEN /\ pcR' = [pcR EXCEPT ![r] = "returned"]
            /\ got' = [got EXCEPT ![r] = OnceCellGet(user_data)]
            /\ sleepsFull' = [sleepsFull EXCEPT ![r] = 0]
       ELSE /\ pcR' = [pcR EXCEPT ![r] = "L181"]
            /\ got' = got
            /\ sleepsFull' = sleepsFull
    /\ UNCHANGED <<newVars, fwVars, startVars, taskVars, clientVars, eventVars>>

\* mutant: the call gives up after one sleep and returns without a value
UserDataWake_GiveUp(r) ==
    /\ pcR[r] = "L181"
    /\ pcR' = [pcR EXCEPT ![r] = "returned"]
    /\ UNCHANGED <<got, sleepsFull>>
    /\ UNCHANGED <<newVars, fwVars, startVars, taskVars, clientVars, eventVars>>

\* mutant: the sleep is repeated without looking at the slot again
UserDataWake_NoRecheck(r) ==
    /\ pcR[r] = "L181"
    /\ pcR' = pcR
    /\ sleepsFull' = [sleepsFull EXCEPT ![r] =
            IF OnceCellGet(user_data) \in Values /\ @ < MaxSleepsCounted THEN @ + 1 ELSE @]
    /\ UNCHANGED got
    /\ UNCHANGED <<newVars, fwVars, startVars, taskVars, clientVars, eventVars>>

\* line 181: the sleep elapses and the loop checks again; a sleep that ends
\* with the slot full is one poll interval spent after the fill
UserDataWake(r) ==
    /\ pcR[r] = "L181"
    /\ pcR' = [pcR EXCEPT ![r] = "L179"]
    /\ sleepsFull' = [sleepsFull EXCEPT ![r] =
            IF OnceCellGet(user_data) \in Values /\ @ < MaxSleepsCounted THEN @ + 1 ELSE @]
    /\ UNCHANGED got
    /\ UNCHANGED <<newVars, fwVars, startVars, taskVars, clientVars, eventVars>>

\* ---- introspection (lines 160-173) ----

\* lines 161-163: options() returns &self.options
OptionsGet == options

\* lines 166-168: application_id() returns self.application_id
ApplicationIdGet == application_id

\* lines 171-173: shard_manager() returns a clone of the Arc
ShardManagerGet == shard_manager

Next ==
    \/ NewAllocCell
    \/ NewBuildClient
    \/ NewAssemble
    \/ NewSetCell
    \/ NewReturn
    \/ \E s \in Calls :
        \/ Start(s)
        \/ StartAutosharded(s)
        \/ StartSpawnTask(s)
        \/ StartInvokeRun(s)
        \/ StartRunReturns(s)
        \/ StartAbortTask(s)
        \/ StartReturnOk(s)
        \/ TaskFirstPoll(s)
        \/ TaskCheckTracker(s)
        \/ TaskPurge(s)
        \/ TaskWake(s)
        \/ TaskCancelled(s)
    \/ \E e \in Events :
        \/ RawEvent(e)
        \/ SetupReturns(e)
    \/ \E r \in Readers :
        \/ UserDataEnter(r)
        \/ UserDataPoll(r)
        \/ UserDataWake(r)

Spec == Init /\ [][Next]_vars

\* the runtime keeps polling a user_data() caller: its timer fires and the
\* woken task is run
FairSpec ==
    /\ Spec
    /\ \A r \in Readers : WF_vars(UserDataPoll(r)) /\ WF_vars(UserDataWake(r))

\* ---- properties ----

\* a start call that took the client out of its holder
Extracted(s) == pcS[s] \in {"L122", "L133", "await", "L135", "L137", "returned"}

\* C1: after a start call has returned, with Ok or with a ClientError, abort()
\* has been called on the purge task that call spawned
C1_TaskCancelledOnEveryExit ==
    \A s \in Calls : pcS[s] = "returned" => abortReq[s]

\* C2: a start call made when the client is already consumed ends in a panic in
\* that same step: it invokes no run operation, returns nothing, spawns nothing,
\* and stays panicked
C2_DoubleStartFailsFast ==
    [][\A s \in Calls :
        /\ (pcS[s] = "idle" /\ pcS'[s] # "idle" /\ client = "None")
              => /\ pcS'[s] = "panicked"
                 /\ panicMsg'[s] \in {"Prepared client is missing", "PoisonError"}
                 /\ runCount' = runCount
                 /\ result'[s] = "none"
                 /\ task'[s] = "none"
        /\ (pcS[s] = "panicked") => (pcS'[s] = "panicked" /\ result'[s] = "none")]_vars

C2_Witness ==
    \E s, t \in Calls :
        /\ panicMsg[s] = "Prepared client is missing"
        /\ panicMsg[t] = "PoisonError"
        /\ runCount = 1

\* C3: among all start calls made so far exactly one extracted the client, and
\* the run operation was invoked at most once
C3_ExactlyOneExtracts ==
    /\ Cardinality({s \in Calls : Extracted(s)}) <= 1
    /\ runCount <= 1
    /\ (\E s \in Calls : pcS[s] # "idle") => Cardinality({s \in Calls : Extracted(s)}) = 1

C3_Witness ==
    \E s, t \in Calls : pcS[s] = "await" /\ pcS[t] = "panicked" /\ runCount = 1

\* C4: the setup callback is invoked at most once; a Ready event handled when the
\* callback is gone ends at once without invoking it, without touching the slot
\* and without reporting an error or panicking
C4_SetupAtMostOnce ==
    [][/\ setupCalls' <= 1
       /\ \A e \in Events :
            (pcE[e] = "pending" /\ pcE'[e] # "pending" /\ kind'[e] = "Ready"
                /\ user_data_setup = "None")
              => /\ pcE'[e] = "done"
                 /\ setupCalls' = setupCalls
                 /\ user_data' = user_data
                 /\ errorReports' = errorReports]_vars

C4_Witness ==
    /\ \A e \in Events : kind[e] = "Ready" /\ pcE[e] = "done"
    /\ setupCalls = 1
    /\ user_data \in Values

\* C5: a user_data() caller that is polling once the slot is full eventually
\* returns the value the setup callback produced
C5_WaiterEventuallyReturns ==
    \A r \in Readers :
        (pcR[r] \in {"L179", "L181"} /\ user_data \in Values)
            ~> (pcR[r] = "returned" /\ got[r] = setupResult)

\* a caller that found the slot empty and is asleep while the slot has been filled
C5_Witness ==
    \E r \in Readers : pcR[r] = "L181" /\ user_data \in Values /\ setupResult = user_data

\* C6: no raw event finds the cell empty: the cell is written in every state in
\* which the client runs or ran, or an event has reached the bridge
C6_CellWrittenBeforeRead ==
    /\ \A e \in Events : pcE[e] # "panicked"
    /\ (clientState \in {"running", "ended"} \/ \E e \in Events : pcE[e] # "pending")
          => OnceCellGet(framework_cell) = "Framework"

C6_Witness ==
    \E e \in Events : pcE[e] = "done" /\ framework_cell = "Framework"

\* C7: once the framework is assembled the client holder is Some exactly as long
\* as no start call has extracted it, None from then on, and never refilled
C7_ClientSomeUntilStarted ==
    [][/\ (client = "None") => (client' = "None")
       /\ (client' # NoFramework)
            => /\ (client' = "Some") <=> (\A s \in Calls : ~Extracted(s)')
               /\ (client' = "None") <=> (\E s \in Calls : Extracted(s)')]_vars

C7_Witness ==
    \E s \in Calls : pcS[s] = "returned" /\ result[s] \in ClientErrors /\ client = "None"

\* C8: a full slot keeps its value in every later state
C8_SlotWrittenOnce ==
    [][(user_data \in Values) => (user_data' = user_data)]_vars

C8_Witness ==
    /\ user_data \in Values
    /\ \A e \in Events : kind[e] = "Ready" /\ pcE[e] = "done"
    /\ \E r \in Readers : pcR[r] = "returned"
    /\ \E s \in Calls : pcS[s] = "returned"

\* C9: a start call that returned, returned what the run operation returned
C9_RunResultPropagated ==
    \A s \in Calls :
        pcS[s] = "returned" => (runResult \in {"Ok"} \cup ClientErrors /\ result[s] = runResult)

C9_Witness ==
    \E s \in Calls : pcS[s] = "returned" /\ result[s] = "E2" /\ runResult = "E2"

\* C10: when building the client failed, new() ended with that error, the cell is
\* empty, no framework exists, no start call was made and no setup callback ran
C10_BuildFailureFailsNew ==
    buildResult \in ClientErrors
        => /\ pcNew = "done"
           /\ newResult = buildResult
           /\ ~HasHandle
           /\ framework_cell = NoValue
           /\ client = NoFramework /\ user_data = NoFramework /\ user_data_setup = NoFramework
           /\ \A s \in Calls : pcS[s] = "idle"
           /\ \A e \in Events : pcE[e] = "pending"
           /\ setupCalls = 0 /\ runCount = 0

C10_Witness ==
    pcNew = "done" /\ newResult = "E1" /\ buildResult = "E1"

\* C11: a user_data() call that is waiting when the slot is filled completes at
\* most one more 100 ms sleep (the one in progress at the fill), and after that
\* sleep it is at the check that returns
C11_ReturnsWithinOnePollInterval ==
    \A r \in Readers :
        /\ sleepsFull[r] <= 1
        /\ sleepsFull[r] = 1 => (pcR[r] = "L179" /\ user_data \in Values)

\* a caller woken from the sleep during which the slot was filled
C11_Witness ==
    \E r \in Readers : pcR[r] = "L179" /\ sleepsFull[r] = 1 /\ user_data = setupResult

TaskAlive(s) == task[s] \in {"spawned", "L124", "L125", "L128"} /\ ~abortReq[s]

\* C14: while the run operation is in progress the purge task of the running
\* call is alive; a task exists only for a call that extracted the client, and
\* abort() has been called only after the run operation returned
C14_TaskCoversRunLoop ==
    /\ \A s \in Calls : pcS[s] = "await" => TaskAlive(s)
    /\ clientState = "running" => \E s \in Calls : pcS[s] = "await" /\ TaskAlive(s)
    /\ \A s \in Calls : task[s] # "none" => pcS[s] \in {"L133", "await", "L135", "L137", "returned"}
    /\ \A s \in Calls : abortReq[s] => (pcS[s] \in {"L137", "returned"} /\ runResult = "Ok")

\* the task is purging while the run operation is in progress
C14_Witness ==
    \E s \in Calls : pcS[s] = "await" /\ clientState = "running" /\ task[s] = "L125"

\* the Ready events whose handling has begun
ReadyHandled == {e \in Events : kind[e] = "Ready" /\ pcE[e] # "pending"}

\* C15: once the framework is assembled the setup callback holder is Some exactly
\* as long as no Ready event has been handled; once None it stays None; and the
\* only step that changes it is the handling of a Ready event, never a step of
\* start or user_data
C15_SetupPresentUntilFirstReady ==
    [][/\ (user_data_setup' # NoFramework)
            => ((user_data_setup' = "Some") <=> (ReadyHandled' = {}))
       /\ (user_data_setup = "None") => (user_data_setup' = "None")
       /\ (user_data_setup # NoFramework /\ user_data_setup' # user_data_setup)
            => /\ ReadyHandled' # ReadyHandled
               /\ pcS' = pcS
               /\ pcR' = pcR]_vars

\* the callback is gone after a Ready event, while a start call and a
\* user_data() call have both finished
C15_Witness ==
    /\ user_data_setup = "None"
    /\ ReadyHandled # {}
    /\ \E s \in Calls : pcS[s] = "returned"
    /\ \E r \in Readers : pcR[r] = "returned"

\* C16: the purge task holds the edit tracker's write lock exactly while it is
\* inside the purge statement; not yet polled, asleep between intervals or
\* cancelled, it holds no lock, and without a task the lock is free
C16_LockOnlyDuringPurge ==
    /\ \A s \in Calls : (cacheLock = s) <=> (task[s] = "L125")
    /\ \A s \in Calls : task[s] \in {"none", "spawned", "L124", "L128", "cancelled"} => cacheLock # s
    /\ (\A s \in Calls : task[s] # "L125") => cacheLock = 0

\* the task has purged and is asleep with the lock free
C16_Witness ==
    \E s \in Calls : options.edit_tracker /\ task[s] = "L128" /\ cacheLock = 0

\* C17: with no edit tracker configured the lock is never taken and purge is
\* never reached; every step of the purge task is one of first poll, check,
\* wake-up or (only once aborted) cancellation, and it changes nothing but the
\* task's own position
C17_NoTrackerTickIsNoOp ==
    [][~options.edit_tracker =>
        /\ cacheLock' = 0
        /\ \A s \in Calls : task'[s] # "L125"
        /\ \A s \in Calls :
            (task[s] # "none" /\ task'[s] # task[s]) =>
                /\ <<task[s], task'[s]>> \in
                     {<<"spawned", "L124">>, <<"L124", "L128">>, <<"L128", "L124">>,
                      <<"spawned", "cancelled">>, <<"L128", "cancelled">>}
                /\ (task'[s] = "cancelled") => abortReq[s]
                /\ UNCHANGED <<newVars, fwVars, startVars, clientVars, eventVars, readVars>>
                /\ UNCHANGED <<abortReq, cacheLock>>]_vars

\* without a tracker the task has gone through an interval and is asleep again
\* while the run operation is in progress
C17_Witness ==
    \E s \in Calls : ~options.edit_tracker /\ task[s] = "L128" /\ pcS[s] = "await"

\* the start calls that have spawned a purge task
Spawned == {s \in Calls : task[s] # "none"}

\* C18: at most one purge task has been spawned, it belongs to the call that
\* extracted the client, and a call that panicked spawned none
C18_AtMostOneTask ==
    /\ Cardinality(Spawned) <= 1
    /\ \A s \in Spawned : Extracted(s)
    /\ \A s \in Calls : pcS[s] = "panicked" => task[s] = "none"

\* every start call has been made: one spawned the task, the others panicked
C18_Witness ==
    /\ Cardinality(Spawned) = 1
    /\ \A s \in Calls : pcS[s] # "idle"
    /\ \E s \in Calls : pcS[s] = "panicked"

\* the slot holds no value (the framework is not assembled, or the cell is empty)
SlotEmpty == user_data \notin Values

\* C19: every step of a user_data() call leaves all state but the call's own
\* untouched; while the slot is empty such a step only enters the loop, goes to
\* sleep or wakes up, and yields no value; and the call keeps polling: an empty
\* check leads to the sleep and the sleep leads back to the check
C19_EmptySlotPollsForever ==
    /\ [][\A r \in Readers :
            (pcR'[r] # pcR[r]) =>
                /\ UNCHANGED <<newVars, fwVars, startVars, taskVars, clientVars, eventVars>>
                /\ SlotEmpty =>
                    /\ <<pcR[r], pcR'[r]>> \in
                         {<<"idle", "L179">>, <<"L179", "L181">>, <<"L181", "L179">>}
                    /\ got'[r] = "none"]_vars
    /\ \A r \in Readers : (pcR[r] = "L179" /\ SlotEmpty) ~> (pcR[r] = "L181" \/ ~SlotEmpty)
    /\ \A r \in Readers : (pcR[r] = "L181") ~> (pcR[r] = "L179")

\* the setup callback has failed and the run loop has ended, so the slot will
\* never be filled, and a call is asleep in the loop
C19_Witness ==
    /\ setupResult = "Err"
    /\ clientState = "ended"
    /\ \A e \in Events : pcE[e] \in {"pending", "done"}
    /\ \E r \in Readers : pcR[r] = "L181"

====
